---- MODULE Spec2Model ----
(***************************************************************************)
(* Prediction pipeline of the HATA backend: POST /predict (hosted          *)
(* classifier variant and ML service variant), GET /history, GET /:id and  *)
(* POST /feedback, over the Prediction and Feedback collections.           *)
(*                                                                         *)
(* Numbers in [0,1] are fixed-point hundredths: One stands for 1.0.        *)
(* A text is a sequence of pieces, each a run of whitespace or a word      *)
(* with its length in characters.                                          *)
(***************************************************************************)
EXTENDS Integers, Sequences, FiniteSets, TLC

VARIABLES variant, now, store, req, feedbacks, fb, reader

vars == <<variant, now, store, req, feedbacks, fb, reader>>

(***************************************************************************)
(* Bounds of the model.                                                    *)
(***************************************************************************)
MaxReq == 1
MaxSample == 2
MaxFb == 1
MaxAttach == 2

(***************************************************************************)
(* Program constants.                                                      *)
(***************************************************************************)
One == 100
MaxTextLen == 50000
TokenLimit == 50
DefaultPage == 1
DefaultLimit == 20
Absent == 0 - 1

ReqIds == 1..MaxReq
SampleIds == 1..MaxSample
FbIds == 1..MaxFb
AttachIds == 1..MaxAttach

Languages == {"ha", "yo", "ig", "pcm"}
Methods == {"lime", "shap", "attention"}

Min(a, b) == IF a < b THEN a ELSE b
Max(a, b) == IF a > b THEN a ELSE b

(* the handler invocations of POST /predict the model follows *)
Slots == 1..Max(MaxReq, MaxSample)

(* the handler invocations of POST /feedback the model follows *)
FbSlots == 1..Max(MaxFb, MaxAttach)

(***************************************************************************)
(* Principals, as the authentication middleware resolves them.             *)
(***************************************************************************)
Anonymous == [id |-> "none", role |-> "none"]
UserA == [id |-> "A", role |-> "user"]
UserB == [id |-> "B", role |-> "admin"]
Users == {UserA, UserB}
Principals == {Anonymous} \cup Users

(* a principal kept in a variable the requests share: the first request's *)
UserIdOfFirst(p) == req[1].user.id

(* req.user?._id *)
UserIdOf(p) == p.id

(***************************************************************************)
(* Texts.                                                                  *)
(***************************************************************************)
Ws(n) == [ws |-> TRUE, s |-> " ", n |-> n]
Word(s, n) == [ws |-> FALSE, s |-> s, n |-> n]

TextEmpty == <<>>
TextBlank == <<Ws(2)>>
TextShort == <<Ws(1), Word("Wannan", 6), Ws(1), Word("labari", 6), Ws(2)>>
TextMax == <<Ws(1), Word("x", MaxTextLen)>>
TextOver == <<Word("x", MaxTextLen + 1)>>

(* one word more than the explanation keeps *)
LongWords == TokenLimit + 1
TextLong ==
  [i \in 1..(2 * LongWords - 1) |->
     IF i % 2 = 1 THEN Word(ToString((i + 1) \div 2), 1) ELSE Ws(1)]

Texts == {TextEmpty, TextBlank, TextShort, TextMax, TextOver}
LanguageInputs == {"ha", "en"}

(* the characters of the pieces lo..hi *)
RECURSIVE PieceChars(_, _, _)
PieceChars(t, lo, hi) ==
  IF lo > hi THEN 0
  ELSE IF lo = hi THEN t[lo].n
  ELSE LET mid == (lo + hi) \div 2
       IN PieceChars(t, lo, mid) + PieceChars(t, mid + 1, hi)

(* String.prototype.length *)
StrLen(t) == PieceChars(t, 1, Len(t))

(* the positions that hold a word *)
WordAt(t) == {i \in 1..Len(t) : ~t[i].ws}

TrimStart(t) ==
  IF WordAt(t) = {} THEN <<>>
  ELSE SubSeq(t, CHOOSE i \in WordAt(t) : \A j \in WordAt(t) : i <= j, Len(t))

TrimEnd(t) ==
  IF WordAt(t) = {} THEN <<>>
  ELSE SubSeq(t, 1, CHOOSE i \in WordAt(t) : \A j \in WordAt(t) : i >= j)

(* String.prototype.trim, as the validator's sanitizer and the schema use it *)
Trim(t) == TrimEnd(TrimStart(t))

(* the words between the whitespace runs *)
WordsOf(t) ==
  LET words == SelectSeq(t, LAMBDA p : ~p.ws)
  IN [i \in 1..Len(words) |-> words[i].s]

(* text.split(/\s+/): a leading or trailing whitespace run leaves an empty token *)
Split(t) ==
  IF t = <<>> THEN <<"">>
  ELSE (IF t[1].ws THEN <<"">> ELSE <<>>) \o WordsOf(t)
       \o (IF t[Len(t)].ws THEN <<"">> ELSE <<>>)

(* a slice that keeps everything *)
SliceAll(s, n) == s

(* Array.prototype.slice(0, n) *)
Slice(s, n) == SubSeq(s, 1, Min(n, Len(s)))

(***************************************************************************)
(* POST /predict validation chain.                                         *)
(***************************************************************************)
(* a length check that forgets the lower bound *)
IsLengthFailsNoMin(t) == StrLen(t) > MaxTextLen

IsLengthFails(t) == StrLen(t) < 1 \/ StrLen(t) > MaxTextLen

IsInFails(l) == l \notin Languages

(* validationResult(req): the fields whose chain failed; text is trimmed first *)
ValidationErrors(text, language) ==
  (IF IsLengthFails(Trim(text)) THEN {"text"} ELSE {})
  \cup (IF IsInFails(language) THEN {"language"} ELSE {})

(***************************************************************************)
(* Errors, as the catch block sees them: a code and the words of a message.*)
(***************************************************************************)
NoError == [code |-> "none", message |-> {}]
ErrRefused == [code |-> "ECONNREFUSED", message |-> {"connect", "ECONNREFUSED"}]
ErrTimeout == [code |-> "ECONNABORTED", message |-> {"timeout", "of", "30000ms", "exceeded"}]
ErrAborted == [code |-> "ECONNABORTED", message |-> {"Request", "aborted"}]
ErrHttp == [code |-> "ERR_BAD_RESPONSE", message |-> {"Request", "failed", "with", "status", "code"}]
ErrTransport == [code |-> "ECONNRESET", message |-> {"socket", "hang", "up"}]
ErrType == [code |-> "none", message |-> {"Cannot", "read", "properties", "of", "undefined"}]
ErrStore == [code |-> "none", message |-> {"Operation", "buffering", "timed", "out"}]

BackendErrors == {ErrRefused, ErrTimeout, ErrAborted, ErrHttp, ErrTransport}

(* error.message.includes('timeout') *)
IncludesTimeout(message) == "timeout" \in message

(* the catch block of POST /predict *)
StatusOfError(error) ==
  IF error.code = "ECONNREFUSED" THEN 503
  ELSE IF error.code = "ECONNABORTED" \/ IncludesTimeout(error.message) THEN 504
  ELSE 500

(***************************************************************************)
(* Backend responses.                                                      *)
(***************************************************************************)
HFEntry(label, score) == [label |-> label, score |-> score]

(* hfResponse.data[0] of the hosted classifier, when it is an array *)
HFResults ==
  { <<HFEntry("LABEL_0", 99), HFEntry("LABEL_1", 1)>>,
    <<HFEntry("LABEL_0", 10), HFEntry("LABEL_1", 90)>>,
    <<HFEntry("OTHER", 80), HFEntry("LABEL_1", 20)>>,
    <<>> }

NoExplanation ==
  [present |-> FALSE, tokens |-> <<>>, importances |-> <<>>,
   method |-> "absent", status |-> "absent"]

NoBias ==
  [present |-> FALSE, gender |-> 0, ethnic |-> 0, religious |-> 0, overall |-> 0]

LimeExplanation ==
  [present |-> TRUE, tokens |-> <<"Wannan", "labari">>, importances |-> <<30, 70>>,
   method |-> "lime", status |-> "success"]

SomeBias ==
  [present |-> TRUE, gender |-> 20, ethnic |-> 10, religious |-> 0, overall |-> 15]

MLPrediction(label, confidence, hasProbs, probabilities) ==
  [label |-> label, confidence |-> confidence,
   hasProbs |-> hasProbs, probabilities |-> probabilities]

MLResult(prediction, explanation, biasScore) ==
  [prediction |-> prediction, explanation |-> explanation, biasScore |-> biasScore]

NoMLResult == MLResult(MLPrediction(Absent, Absent, FALSE, <<>>), NoExplanation, NoBias)

(* mlResponse.data of the ML service *)
MLResults ==
  { MLResult(MLPrediction(1, 90, TRUE, <<10, 90>>), LimeExplanation, SomeBias),
    MLResult(MLPrediction(0, 80, TRUE, <<80, 20>>), LimeExplanation, NoBias),
    MLResult(MLPrediction(1, 90, TRUE, <<50, 50>>), LimeExplanation, SomeBias),
    MLResult(MLPrediction(1, 70, FALSE, <<>>),
             [LimeExplanation EXCEPT !.method = "absent"], NoBias),
    MLResult(MLPrediction(1, 70, FALSE, <<>>), NoExplanation, NoBias),
    MLResult(MLPrediction(0, 60, FALSE, <<>>),
             [LimeExplanation EXCEPT !.method = "timeout"], SomeBias) }

NoResp == [kind |-> "none", hf |-> <<>>, ml |-> NoMLResult]
HFResp(results) == [kind |-> "hf", hf |-> results, ml |-> NoMLResult]
HFMalformed == [kind |-> "malformed", hf |-> <<>>, ml |-> NoMLResult]
MLResp(result) == [kind |-> "ml", hf |-> <<>>, ml |-> result]

Responses(v) ==
  IF v = "hosted" THEN {HFResp(x) : x \in HFResults} \cup {HFMalformed}
  ELSE {MLResp(x) : x \in MLResults}

(***************************************************************************)
(* Hosted classifier variant: label mapping and fallback synthesis.        *)
(***************************************************************************)
RECURSIVE InsertDesc(_, _)
InsertDesc(e, s) ==
  IF s = <<>> THEN <<e>>
  ELSE IF s[1].score >= e.score THEN <<s[1]>> \o InsertDesc(e, Tail(s))
  ELSE <<e>> \o s

RECURSIVE SortDesc(_)
(* results.sort((a, b) => b.score - a.score), a stable sort *)
SortDesc(s) ==
  IF s = <<>> THEN <<>>
  ELSE InsertDesc(s[Len(s)], SortDesc(SubSeq(s, 1, Len(s) - 1)))

TopResult(results) == SortDesc(results)[1]

PredictedClass(top) == IF top.label = "LABEL_1" THEN 1 ELSE 0

(* samples of Math.random(), in [0, 1) *)
RandomDraws == {0, 90}

(* Math.random() * 0.5 + 0.2 *)
MockImportance(r) == (r \div 2) + 20

(* Math.random() * 0.1 *)
MockBias(r) == r \div 10

FixedOverall == 5

(* [ class 0 ? confidence : 1 - confidence, class 1 ? confidence : 1 - confidence ] *)
DerivedProbabilities(predictedClass, confidence) ==
  << IF predictedClass = 0 THEN confidence ELSE One - confidence,
     IF predictedClass = 1 THEN confidence ELSE One - confidence >>

HostedRaw(text, language, user, results, imps, g, e, rl) ==
  LET top == TopResult(results)
      predictedClass == PredictedClass(top)
      confidence == top.score
  IN [text |-> text,
      language |-> language,
      prediction |-> [label |-> predictedClass,
                      confidence |-> confidence,
                      probabilities |-> DerivedProbabilities(predictedClass, confidence)],
      explanation |-> [present |-> TRUE,
                       tokens |-> Slice(Split(text), TokenLimit),
                       importances |-> imps,
                       method |-> "simple-attribution",
                       status |-> "inference-api-mode"],
      biasScore |-> [present |-> TRUE, gender |-> MockBias(g), ethnic |-> MockBias(e),
                     religious |-> MockBias(rl), overall |-> FixedOverall],
      userId |-> UserIdOf(user),
      source |-> "huggingface-inference-api"]

(***************************************************************************)
(* ML service variant.                                                     *)
(***************************************************************************)
(* x || 0 on a number that may be missing *)
OrZero(x) == IF x = Absent \/ x = 0 THEN 0 ELSE x

MLRaw(text, language, user, mlResult) ==
  LET confidence == OrZero(mlResult.prediction.confidence)
      predictedClass == OrZero(mlResult.prediction.label)
  IN [text |-> text,
      language |-> language,
      prediction |-> [label |-> predictedClass,
                      confidence |-> confidence,
                      probabilities |->
                        IF mlResult.prediction.hasProbs
                        THEN mlResult.prediction.probabilities
                        ELSE DerivedProbabilities(predictedClass, confidence)],
      explanation |-> IF mlResult.explanation.present
                      THEN mlResult.explanation
                      ELSE [present |-> TRUE,
                            tokens |-> Slice(Split(text), TokenLimit),
                            importances |-> <<>>,
                            method |-> "ml-service",
                            status |-> "success"],
      biasScore |-> IF mlResult.biasScore.present
                    THEN mlResult.biasScore
                    ELSE [present |-> TRUE, gender |-> 0, ethnic |-> 0,
                          religious |-> 0, overall |-> 0],
      userId |-> UserIdOf(user),
      source |-> "ml-service"]

(***************************************************************************)
(* Prediction model: the schema's casting, defaults and validators.        *)
(***************************************************************************)
DefaultMethod == "lime"
DefaultModelVersion == "v1.0"

NoFeedback == [present |-> FALSE, rating |-> 0, correctLabel |-> Absent, comment |-> <<>>]

(* new Prediction(raw): paths outside the schema are dropped (strict mode), *)
(* missing paths take their defaults, _id and timestamp are set here        *)
NewPrediction(raw, id, ts) ==
  [_id |-> id,
   text |-> Trim(raw.text),
   language |-> raw.language,
   prediction |-> raw.prediction,
   explanation |-> [tokens |-> raw.explanation.tokens,
                    importances |-> raw.explanation.importances,
                    method |-> IF raw.explanation.method = "absent"
                               THEN DefaultMethod ELSE raw.explanation.method],
   biasScore |-> [genderBias |-> 0, ethnicBias |-> 0,
                  religiousBias |-> 0, overallBias |-> 0],
   userId |-> raw.userId,
   feedback |-> NoFeedback,
   metadata |-> [modelVersion |-> DefaultModelVersion],
   timestamp |-> ts]

NoDoc ==
  [_id |-> 0, text |-> <<>>, language |-> "",
   prediction |-> [label |-> 0, confidence |-> 0, probabilities |-> <<>>],
   explanation |-> [tokens |-> <<>>, importances |-> <<>>, method |-> ""],
   biasScore |-> [genderBias |-> 0, ethnicBias |-> 0,
                  religiousBias |-> 0, overallBias |-> 0],
   userId |-> "none", feedback |-> NoFeedback,
   metadata |-> [modelVersion |-> ""], timestamp |-> 0]

InUnit(x) == 0 <= x /\ x <= One

(* doc.validate(): the failing paths, each with the value its message echoes *)
Validate(doc) ==
  (IF StrLen(doc.text) = 0 THEN {<<"text", "">>} ELSE {})
  \cup (IF doc.language \notin Languages THEN {<<"language", doc.language>>} ELSE {})
  \cup (IF doc.prediction.label \notin {0, 1} THEN {<<"prediction.label", "">>} ELSE {})
  \cup (IF ~InUnit(doc.prediction.confidence)
        THEN {<<"prediction.confidence", "">>} ELSE {})
  \cup (IF doc.explanation.method \notin Methods
        THEN {<<"explanation.method", doc.explanation.method>>} ELSE {})
  \cup {<<"biasScore", "">> : x \in
          {b \in {doc.biasScore.genderBias, doc.biasScore.ethnicBias,
                  doc.biasScore.religiousBias, doc.biasScore.overallBias} : ~InUnit(b)}}

(* the ValidationError that save() rejects with *)
ValidationError(errs) ==
  [code |-> "none",
   message |-> {"Prediction", "validation", "failed"} \cup {e[2] : e \in errs}]

(***************************************************************************)
(* State.                                                                  *)
(***************************************************************************)
IdleReq ==
  [pc |-> "idle", text |-> <<>>, language |-> "", user |-> Anonymous,
   resp |-> NoResp, failedAt |-> "none", error |-> NoError, doc |-> NoDoc,
   status |-> 0, predictionId |-> 0, calls |-> 0, creates |-> 0]

IdleReader ==
  [pc |-> "idle", op |-> "none", user |-> Anonymous, id |-> 0, page |-> 0, limit |-> 0,
   predictions |-> <<>>, total |-> 0, pages |-> 0, status |-> 0, data |-> NoDoc]

IdleFb ==
  [pc |-> "idle", predictionId |-> 0, user |-> Anonymous, rating |-> 0,
   correctLabel |-> Absent, comment |-> <<>>, feedbackType |-> "absent",
   prediction |-> NoDoc, status |-> 0, feedbackId |-> 0]

Init ==
  /\ variant \in {"hosted", "ml-service"}
  /\ now = 1
  /\ store = <<>>
  /\ req = [r \in Slots |-> IdleReq]
  /\ feedbacks = <<>>
  /\ fb = [f \in FbSlots |-> IdleFb]
  /\ reader = IdleReader

(***************************************************************************)
(* POST /predict.                                                          *)
(***************************************************************************)
(* the catch block: respond with the mapped status *)
Caught(r, phase, error) ==
  [req[r] EXCEPT !.pc = "done", !.failedAt = phase, !.error = error,
                 !.doc = NoDoc, !.status = StatusOfError(error)]

(* validation, then either 400 or the backend call is issued *)
PredictReceiveOf(r, texts, languages, principals) ==
  /\ req[r].pc = "idle"
  /\ \E text \in texts, language \in languages, user \in principals :
       req' = [req EXCEPT ![r] =
         IF ValidationErrors(text, language) # {}
         THEN [@ EXCEPT !.pc = "done", !.text = text, !.language = language,
                        !.user = user, !.failedAt = "validation", !.status = 400]
         ELSE [@ EXCEPT !.pc = "calling", !.text = Trim(text), !.language = language,
                        !.user = user, !.calls = @ + 1]]
  /\ UNCHANGED <<variant, now, store, feedbacks, fb, reader>>

PredictReceive(r) == PredictReceiveOf(r, Texts, LanguageInputs, Principals)

(* a catch block that stores a stub record for the failed call *)
BackendFailOfPersisting(r, errors) ==
  /\ req[r].pc = "calling"
  /\ \E error \in errors :
       req' = [req EXCEPT ![r] = Caught(r, "backend", error)]
  /\ store' = Append(store, [NoDoc EXCEPT !._id = r, !.text = req[r].text,
                                          !.language = req[r].language])
  /\ UNCHANGED <<variant, now, feedbacks, fb, reader>>

(* axios.post rejects *)
BackendFailOf(r, errors) ==
  /\ req[r].pc = "calling"
  /\ \E error \in errors :
       req' = [req EXCEPT ![r] = Caught(r, "backend", error)]
  /\ UNCHANGED <<variant, now, store, feedbacks, fb, reader>>

BackendFail(r) == BackendFailOf(r, BackendErrors)

(* tokens.map(() => Math.random() * 0.5 + 0.2): one draw per token, sampled *)
(* as the draws of the odd and of the even positions                        *)
MockImportances(n) ==
  { [i \in 1..n |-> MockImportance(IF i % 2 = 1 THEN a ELSE b)] :
      a \in RandomDraws, b \in RandomDraws }

(* the raw objects the handler can assemble from a response *)
RawObjects(r, resp) ==
  IF resp.kind = "hf"
  THEN LET n == Len(Slice(Split(req[r].text), TokenLimit))
       IN { HostedRaw(req[r].text, req[r].language, req[r].user, resp.hf, imps, g, e, rl) :
              imps \in MockImportances(n),
              g \in RandomDraws, e \in RandomDraws, rl \in RandomDraws }
  ELSE { MLRaw(req[r].text, req[r].language, req[r].user, resp.ml) }

(* the response cannot be normalised: data[0] is undefined or holds no entry *)
Unusable(resp) == resp.kind = "malformed" \/ (resp.kind = "hf" /\ resp.hf = <<>>)

(* axios.post resolves: normalise, assemble the document, start save() *)
BackendReturnOf(r, responses, ticks) ==
  /\ req[r].pc = "calling"
  /\ \E resp \in responses :
       IF Unusable(resp)
       THEN /\ req' = [req EXCEPT ![r] = [Caught(r, "normalize", ErrType) EXCEPT !.resp = resp]]
            /\ now' = now
       ELSE \E raw \in RawObjects(r, resp), ts \in {now + t : t \in ticks} :
              /\ now' = ts
              /\ req' = [req EXCEPT ![r] =
                   [@ EXCEPT !.pc = "saving", !.resp = resp,
                             !.doc = NewPrediction(raw, r, ts), !.creates = @ + 1]]
  /\ UNCHANGED <<variant, store, feedbacks, fb, reader>>

(* Date.now() at construction: the clock has advanced since the last record, *)
(* or it has not                                                            *)
Ticks == {0, 1}

BackendReturn(r) == BackendReturnOf(r, Responses(variant), Ticks)

(* a save that writes the document of whichever request assembled one *)
SaveOkShared(r) ==
  /\ req[r].pc = "saving"
  /\ Validate(req[r].doc) = {}
  /\ LET q == CHOOSE x \in Slots : req[x].pc = "saving"
     IN store' = Append(store, [req[q].doc EXCEPT !._id = r])
  /\ req' = [req EXCEPT ![r] =
       [@ EXCEPT !.pc = "done", !.status = 200, !.predictionId = req[r].doc._id]]
  /\ UNCHANGED <<variant, now, feedbacks, fb, reader>>

(* prediction.save() resolves: the document is inserted and 200 is sent *)
SaveOk(r) ==
  /\ req[r].pc = "saving"
  /\ Validate(req[r].doc) = {}
  /\ store' = Append(store, req[r].doc)
  /\ req' = [req EXCEPT ![r] =
       [@ EXCEPT !.pc = "done", !.status = 200, !.predictionId = req[r].doc._id]]
  /\ UNCHANGED <<variant, now, feedbacks, fb, reader>>

(* a handler that starts over when save() rejects *)
SaveFailRetrying(r) ==
  /\ req[r].pc = "saving"
  /\ req[r].calls < 3
  /\ req' = [req EXCEPT ![r] = [@ EXCEPT !.pc = "calling", !.doc = NoDoc, !.calls = @ + 1]]
  /\ UNCHANGED <<variant, now, store, feedbacks, fb, reader>>

(* prediction.save() rejects: validation, or the store fails the insert *)
SaveFail(r) ==
  /\ req[r].pc = "saving"
  /\ LET errs == Validate(req[r].doc)
     IN req' = [req EXCEPT ![r] =
          Caught(r, "save", IF errs # {} THEN ValidationError(errs) ELSE ErrStore)]
  /\ UNCHANGED <<variant, now, store, feedbacks, fb, reader>>

(***************************************************************************)
(* Record store queries.                                                   *)
(***************************************************************************)
Range(s) == {s[i] : i \in 1..Len(s)}

(* Prediction.findById(id): the stored documents with that id *)
FindById(id) == {d \in Range(store) : d._id = id}

(* a find that drops the owner filter *)
FindByUserAny(userId) == Range(store)

(* Prediction.find({ userId }) *)
FindByUser(userId) == {d \in Range(store) : d.userId = userId}

(* .sort({ timestamp: -1 }): any order of the set that descends by timestamp; *)
(* the store leaves the order of equal timestamps open                        *)
SortedByTimestampDesc(S) ==
  { q \in [1..Cardinality(S) -> S] :
      /\ \A i, j \in 1..Cardinality(S) : i # j => q[i] # q[j]
      /\ \A i, j \in 1..Cardinality(S) : i < j => q[i].timestamp >= q[j].timestamp }

(* a skip that is off by one *)
SkipOneMore(q, k) == SubSeq(q, k + 2, Len(q))

(* .skip(k) *)
Skip(q, k) == SubSeq(q, k + 1, Len(q))

(* .limit(n) *)
Limit(q, n) == SubSeq(q, 1, Min(n, Len(q)))

(* Prediction.countDocuments({ userId }) *)
CountDocuments(userId) == Cardinality(FindByUser(userId))

(* Math.ceil(total / limit), limit > 0 *)
Ceil(total, limit) == (total + limit - 1) \div limit

(***************************************************************************)
(* Authentication middleware.                                              *)
(***************************************************************************)
(* protect: a request without an authenticated principal is answered 401 *)
Protect(user) == user \in Users

(***************************************************************************)
(* GET /history.                                                           *)
(***************************************************************************)
PageInputs == {Absent, 0, 2}
LimitInputs == {Absent, 1, 2}
IdInputs == 0..(Max(MaxReq, MaxSample) + 1)
(* ids of POST /feedback: malformed, the first record's, and one never issued *)
FeedbackIdInputs == {0, 1, Max(MaxReq, MaxSample) + 1}

(* parseInt(q) || dflt, for a query value that is missing or a number >= 0 *)
ParseOr(q, dflt) == IF q = Absent \/ q = 0 THEN dflt ELSE q

(* protect, the query parameters, and the find query *)
HistoryFindOf(users, pageQs, limitQs) ==
  /\ reader.pc = "idle"
  /\ \E user \in users, pageQ \in pageQs, limitQ \in limitQs :
       IF ~Protect(user)
       THEN reader' = [IdleReader EXCEPT !.pc = "done", !.op = "history",
                                         !.user = user, !.status = 401]
       ELSE LET page == ParseOr(pageQ, DefaultPage)
                limit == ParseOr(limitQ, DefaultLimit)
                skip == (page - 1) * limit
            IN \E q \in SortedByTimestampDesc(FindByUser(UserIdOf(user))) :
                 reader' = [IdleReader EXCEPT !.pc = "counting", !.op = "history",
                                              !.user = user, !.page = page, !.limit = limit,
                                              !.predictions = Limit(Skip(q, skip), limit)]
  /\ UNCHANGED <<variant, now, store, req, feedbacks, fb>>

HistoryFind == HistoryFindOf(Principals, PageInputs, LimitInputs)

(* the count query, then the response *)
HistoryCount ==
  /\ reader.pc = "counting"
  /\ LET total == CountDocuments(UserIdOf(reader.user))
     IN reader' = [reader EXCEPT !.pc = "done", !.total = total,
                                 !.pages = Ceil(total, reader.limit), !.status = 200]
  /\ UNCHANGED <<variant, now, store, req, feedbacks, fb>>

(***************************************************************************)
(* GET /:id.                                                               *)
(***************************************************************************)
(* isValidObjectId: findById rejects with a CastError otherwise *)
IsMongoId(id) == id >= 1

(* an access check that lets the admin role through *)
AccessDeniedUnlessAdmin(prediction, user) ==
  /\ prediction.userId # "none"
  /\ user.role # "admin"
  /\ (user = Anonymous \/ prediction.userId # UserIdOf(user))

(* prediction.userId && (!req.user || prediction.userId !== req.user._id) *)
AccessDenied(prediction, user) ==
  prediction.userId # "none" /\ (user = Anonymous \/ prediction.userId # UserIdOf(user))

GetByIdOf(ids, users) ==
  /\ reader.pc = "idle"
  /\ \E id \in ids, user \in users :
       reader' =
         LET base == [IdleReader EXCEPT !.pc = "done", !.op = "get",
                                        !.user = user, !.id = id]
         IN IF ~IsMongoId(id) THEN [base EXCEPT !.status = 500]
            ELSE IF FindById(id) = {} THEN [base EXCEPT !.status = 404]
            ELSE LET prediction == CHOOSE d \in FindById(id) : TRUE
                 IN IF AccessDenied(prediction, user) THEN [base EXCEPT !.status = 403]
                    ELSE [base EXCEPT !.status = 200, !.data = prediction]
  /\ UNCHANGED <<variant, now, store, req, feedbacks, fb>>

GetById == GetByIdOf(IdInputs, Principals)

(* res.json(...) has been sent: the read request is over *)
ReaderClose ==
  /\ reader.pc = "done"
  /\ reader' = IdleReader
  /\ UNCHANGED <<variant, now, store, req, feedbacks, fb>>

(***************************************************************************)
(* POST /feedback.                                                         *)
(***************************************************************************)
MaxCommentLen == 1000
MinRating == 1
MaxRating == 5

FeedbackTypes == {"accuracy", "explanation", "bias", "general"}

FeedbackBody(rating, correctLabel, comment, feedbackType) ==
  [rating |-> rating, correctLabel |-> correctLabel,
   comment |-> comment, feedbackType |-> feedbackType]

(* request bodies of POST /feedback, without the predictionId *)
FeedbackBodies ==
  { FeedbackBody(5, 1, <<Ws(1), Word("good", 4)>>, "absent"),
    FeedbackBody(1, Absent, <<>>, "accuracy"),
    FeedbackBody(0, Absent, <<>>, "absent"),
    FeedbackBody(3, 0, <<Word("c", MaxCommentLen + 1)>>, "absent"),
    FeedbackBody(4, Absent, <<>>, "bogus") }

(* the validation chain of POST /feedback: the fields that fail *)
FeedbackValidationErrors(predictionId, rating, correctLabel, comment) ==
  (IF ~IsMongoId(predictionId) THEN {"predictionId"} ELSE {})
  \cup (IF rating < MinRating \/ rating > MaxRating THEN {"rating"} ELSE {})
  \cup (IF correctLabel # Absent /\ correctLabel \notin {0, 1}
        THEN {"correctLabel"} ELSE {})
  \cup (IF StrLen(Trim(comment)) > MaxCommentLen THEN {"comment"} ELSE {})

(* feedbackType || 'general' *)
TypeOrGeneral(t) == IF t = "absent" THEN "general" ELSE t

(* the document Feedback.create builds *)
NewFeedback(f) ==
  [_id |-> f,
   predictionId |-> fb[f].predictionId,
   userId |-> UserIdOf(fb[f].user),
   rating |-> fb[f].rating,
   correctLabel |-> fb[f].correctLabel,
   comment |-> Trim(fb[f].comment),
   feedbackType |-> TypeOrGeneral(fb[f].feedbackType)]

(* the Feedback schema's validators *)
FeedbackValid(doc) ==
  /\ IsMongoId(doc.predictionId)
  /\ doc.rating >= MinRating /\ doc.rating <= MaxRating
  /\ doc.correctLabel \in {Absent, 0, 1}
  /\ StrLen(doc.comment) <= MaxCommentLen
  /\ doc.feedbackType \in FeedbackTypes

(* a handler that goes on to Feedback.create without the existence check *)
FeedbackFindOfUnchecked(f, ids, users, bodies) ==
  /\ fb[f].pc = "idle"
  /\ \E predictionId \in ids, user \in users, body \in bodies :
       LET base == [fb[f] EXCEPT !.predictionId = predictionId, !.user = user,
                                 !.rating = body.rating,
                                 !.correctLabel = body.correctLabel,
                                 !.comment = Trim(body.comment),
                                 !.feedbackType = body.feedbackType]
       IN fb' = [fb EXCEPT ![f] =
            IF FeedbackValidationErrors(predictionId, body.rating, body.correctLabel,
                                        body.comment) # {}
            THEN [base EXCEPT !.pc = "done", !.status = 400]
            ELSE [base EXCEPT !.pc = "creating",
                              !.prediction = [NoDoc EXCEPT !._id = predictionId]]]
  /\ UNCHANGED <<variant, now, store, req, feedbacks, reader>>

(* validation, then Prediction.findById: 400, 404, or Feedback.create is issued *)
FeedbackFindOf(f, ids, users, bodies) ==
  /\ fb[f].pc = "idle"
  /\ \E predictionId \in ids, user \in users, body \in bodies :
       LET rating == body.rating
           correctLabel == body.correctLabel
           comment == body.comment
           feedbackType == body.feedbackType
           base == [fb[f] EXCEPT !.predictionId = predictionId, !.user = user,
                                 !.rating = rating, !.correctLabel = correctLabel,
                                 !.comment = Trim(comment), !.feedbackType = feedbackType]
       IN fb' = [fb EXCEPT ![f] =
            IF FeedbackValidationErrors(predictionId, rating, correctLabel, comment) # {}
            THEN [base EXCEPT !.pc = "done", !.status = 400]
            ELSE IF FindById(predictionId) = {}
            THEN [base EXCEPT !.pc = "done", !.status = 404]
            ELSE [base EXCEPT !.pc = "creating",
                              !.prediction = CHOOSE d \in FindById(predictionId) : TRUE]]
  /\ UNCHANGED <<variant, now, store, req, feedbacks, reader>>

FeedbackFind(f) == FeedbackFindOf(f, FeedbackIdInputs, {Anonymous, UserA}, FeedbackBodies)

(* Feedback.create resolves; prediction.feedback is set and save() is issued *)
FeedbackCreateOk(f) ==
  /\ fb[f].pc = "creating"
  /\ FeedbackValid(NewFeedback(f))
  /\ feedbacks' = Append(feedbacks, NewFeedback(f))
  /\ fb' = [fb EXCEPT ![f] =
       [@ EXCEPT !.pc = "attaching", !.feedbackId = f,
                 !.prediction = [@ EXCEPT !.feedback =
                    [present |-> TRUE, rating |-> fb[f].rating,
                     correctLabel |-> fb[f].correctLabel, comment |-> fb[f].comment]]]]
  /\ UNCHANGED <<variant, now, store, req, reader>>

(* a handler that swallows the rejected create and goes on to attach *)
FeedbackCreateFailAttaching(f) ==
  /\ fb[f].pc = "creating"
  /\ fb' = [fb EXCEPT ![f] =
       [@ EXCEPT !.pc = "attaching",
                 !.prediction = [@ EXCEPT !.feedback =
                    [present |-> TRUE, rating |-> fb[f].rating,
                     correctLabel |-> fb[f].correctLabel, comment |-> fb[f].comment]]]]
  /\ UNCHANGED <<variant, now, store, req, feedbacks, reader>>

(* Feedback.create rejects: schema validation or the store; caught, 500 *)
FeedbackCreateFail(f) ==
  /\ fb[f].pc = "creating"
  /\ fb' = [fb EXCEPT ![f] = [@ EXCEPT !.pc = "done", !.status = 500]]
  /\ UNCHANGED <<variant, now, store, req, feedbacks, reader>>

(* an update that lands on the first document of the collection *)
SetFeedbackFirst(id, feedback) ==
  [i \in 1..Len(store) |->
     IF i = 1 THEN [store[i] EXCEPT !.feedback = feedback] ELSE store[i]]

(* the update save() sends: $set of the modified path, feedback *)
SetFeedback(id, feedback) ==
  [i \in 1..Len(store) |->
     IF store[i]._id = id THEN [store[i] EXCEPT !.feedback = feedback] ELSE store[i]]

(* an attach that also gives the record a new creation time *)
FeedbackAttachOkTouching(f) ==
  /\ fb[f].pc = "attaching"
  /\ store' = [i \in 1..Len(store) |->
       IF store[i]._id = fb[f].prediction._id
       THEN [store[i] EXCEPT !.feedback = fb[f].prediction.feedback,
                             !.timestamp = now + 1]
       ELSE store[i]]
  /\ fb' = [fb EXCEPT ![f] = [@ EXCEPT !.pc = "done", !.status = 201]]
  /\ UNCHANGED <<variant, now, req, feedbacks, reader>>

(* prediction.save() resolves: the feedback is attached, 201 *)
FeedbackAttachOk(f) ==
  /\ fb[f].pc = "attaching"
  /\ store' = SetFeedback(fb[f].prediction._id, fb[f].prediction.feedback)
  /\ fb' = [fb EXCEPT ![f] = [@ EXCEPT !.pc = "done", !.status = 201]]
  /\ UNCHANGED <<variant, now, req, feedbacks, reader>>

(* prediction.save() rejects: caught, 500; the Feedback document stays *)
FeedbackAttachFail(f) ==
  /\ fb[f].pc = "attaching"
  /\ fb' = [fb EXCEPT ![f] = [@ EXCEPT !.pc = "done", !.status = 500]]
  /\ UNCHANGED <<variant, now, store, req, feedbacks, reader>>

(***************************************************************************)
(* Specifications.                                                         *)
(***************************************************************************)
Next ==
  \/ \E r \in ReqIds : PredictReceive(r)
  \/ \E r \in ReqIds : BackendFail(r)
  \/ \E r \in ReqIds : BackendReturn(r)
  \/ \E r \in ReqIds : SaveOk(r)
  \/ \E r \in ReqIds : SaveFail(r)

Spec == Init /\ [][Next]_vars

(* One valid request shape and one well-formed response: the predict       *)
(* traffic that fills the store the read and feedback handlers work on.    *)
SampleResponses(v) ==
  IF v = "hosted"
  THEN {HFResp(<<HFEntry("LABEL_0", 99), HFEntry("LABEL_1", 1)>>)}
  ELSE {MLResp(MLResult(MLPrediction(1, 90, TRUE, <<10, 90>>), LimeExplanation, SomeBias))}

InitSample == Init /\ variant = "ml-service"

NextPredictSample(principals, ticks) ==
  \/ \E r \in SampleIds : PredictReceiveOf(r, {TextShort}, {"ha"}, principals)
  \/ \E r \in SampleIds : BackendReturnOf(r, SampleResponses(variant), ticks)
  \/ \E r \in SampleIds : SaveOk(r)

(* the same traffic with its failures: a refused call, a rejected save *)
NextPredictSampleFailure ==
  \/ \E r \in SampleIds : BackendFailOf(r, {ErrRefused})
  \/ \E r \in SampleIds : SaveFail(r)

(* Concurrent predict requests that differ in text, principal and response, *)
(* with a failing backend call and a failing save among them.               *)
PairResponses(v) ==
  IF v = "hosted"
  THEN {HFResp(<<HFEntry("LABEL_0", 10), HFEntry("LABEL_1", 90)>>)}
  ELSE {MLResp(MLResult(MLPrediction(1, 90, TRUE, <<10, 90>>), LimeExplanation, SomeBias)),
        MLResp(MLResult(MLPrediction(0, 80, TRUE, <<80, 20>>), LimeExplanation, NoBias))}

NextConcurrent ==
  \/ \E r \in SampleIds : PredictReceiveOf(r, {TextShort}, {"ha"}, {Anonymous, UserB})
  \/ \E r \in SampleIds : PredictReceiveOf(r, {TextMax}, {"ha"}, {UserA})
  \/ \E r \in SampleIds : BackendFailOf(r, {ErrRefused})
  \/ \E r \in SampleIds : BackendReturnOf(r, PairResponses(variant), {1})
  \/ \E r \in SampleIds : SaveOk(r)
  \/ \E r \in SampleIds : SaveFail(r)

SpecConcurrent == Init /\ [][NextConcurrent]_vars

(* Requests on the synthesis path, with texts of fewer and of more words   *)
(* than the explanation keeps; every document assembled here carries a    *)
(* synthesised method, which save() rejects.                              *)
SynthesisResponses(v) ==
  IF v = "hosted"
  THEN {HFResp(<<HFEntry("LABEL_0", 10), HFEntry("LABEL_1", 90)>>)}
  ELSE {MLResp(MLResult(MLPrediction(1, 70, FALSE, <<>>), NoExplanation, NoBias))}

NextSynthesis ==
  \/ \E r \in SampleIds : PredictReceiveOf(r, {TextShort, TextMax, TextLong}, {"ha"}, {Anonymous})
  \/ \E r \in SampleIds : BackendReturnOf(r, SynthesisResponses(variant), {0})
  \/ \E r \in SampleIds : SaveFail(r)

SpecSynthesis == Init /\ [][NextSynthesis]_vars

NextRead ==
  \/ NextPredictSample(Principals, Ticks)
  \/ HistoryFind
  \/ HistoryCount
  \/ GetById
  \/ ReaderClose

SpecRead == InitSample /\ [][NextRead]_vars

NextFeedback ==
  \/ NextPredictSample({Anonymous}, {0})
  \/ NextPredictSampleFailure
  \/ \E f \in FbIds : FeedbackFind(f)
  \/ \E f \in FbIds : FeedbackCreateOk(f)
  \/ \E f \in FbIds : FeedbackCreateFail(f)
  \/ \E f \in FbIds : FeedbackAttachOk(f)
  \/ \E f \in FbIds : FeedbackAttachFail(f)

SpecFeedback == InitSample /\ [][NextFeedback]_vars

(* Predict, read and feedback requests side by side, with several feedback *)
(* submissions for the first record.                                       *)
AttachBodies ==
  { FeedbackBody(5, 1, <<Ws(1), Word("good", 4)>>, "absent"),
    FeedbackBody(1, Absent, <<>>, "accuracy") }

NextFrame ==
  \/ \E r \in ReqIds : PredictReceiveOf(r, {TextShort}, {"ha"}, {UserA})
  \/ \E r \in ReqIds : BackendReturnOf(r, SampleResponses(variant), {0})
  \/ \E r \in ReqIds : SaveOk(r)
  \/ HistoryFindOf({UserA}, {Absent}, {Absent})
  \/ HistoryCount
  \/ GetByIdOf({1}, {UserA})
  \/ ReaderClose
  \/ \E f \in AttachIds : FeedbackFindOf(f, {1}, {Anonymous}, AttachBodies)
  \/ \E f \in AttachIds : FeedbackCreateOk(f)
  \/ \E f \in AttachIds : FeedbackAttachOk(f)

SpecFrame == InitSample /\ [][NextFrame]_vars

(* Several feedback submissions for the first record, each of which can *)
(* fail at the create or at the attach.                                 *)
NextAttach ==
  \/ \E r \in ReqIds : PredictReceiveOf(r, {TextShort}, {"ha"}, {Anonymous})
  \/ \E r \in ReqIds : BackendReturnOf(r, SampleResponses(variant), {0})
  \/ \E r \in ReqIds : SaveOk(r)
  \/ \E f \in AttachIds : FeedbackFindOf(f, {1}, {Anonymous, UserA}, AttachBodies)
  \/ \E f \in AttachIds : FeedbackCreateOk(f)
  \/ \E f \in AttachIds : FeedbackCreateFail(f)
  \/ \E f \in AttachIds : FeedbackAttachOk(f)
  \/ \E f \in AttachIds : FeedbackAttachFail(f)

SpecAttach == InitSample /\ [][NextAttach]_vars

(***************************************************************************)
(* Claims about POST /predict, checked under Spec.                         *)
(***************************************************************************)
RecordsOf(r) == {d \in Range(store) : d._id = r}

ProbabilitiesConsistent(p) ==
  /\ Len(p.probabilities) = 2
  /\ p.probabilities[p.label + 1] = p.confidence
  /\ p.probabilities[(1 - p.label) + 1] = One - p.confidence

(* C1: every persisted PredictionRecord has probabilities[label] = confidence *)
(* and probabilities[1 - label] = 1 - confidence, in either backend variant,  *)
(* also when the backend supplied the probabilities vector itself.            *)
C1_ProbabilitiesMatchConfidence ==
  \A d \in Range(store) : ProbabilitiesConsistent(d.prediction)

(* the request's text is empty after trimming or too long, or its language *)
(* is not a supported code                                                  *)
InvalidInput(q) ==
  \/ StrLen(Trim(q.text)) = 0
  \/ StrLen(Trim(q.text)) > MaxTextLen
  \/ q.language \notin {"ha", "yo", "ig", "pcm"}

(* C2: a predict request with an empty (after trimming) or over-long text, or *)
(* an unsupported language, is answered 400; no backend call is made for it   *)
(* and no PredictionRecord is created for it.                                 *)
C2_InvalidInputRejected ==
  \A r \in Slots :
    (req[r].pc # "idle" /\ InvalidInput(req[r])) =>
      /\ req[r].pc = "done"
      /\ req[r].status = 400
      /\ req[r].calls = 0
      /\ req[r].creates = 0
      /\ RecordsOf(r) = {}

C2_Witness ==
  \E r \in Slots :
    /\ req[r].text = TextBlank /\ req[r].language = "ha"
    /\ req[r].pc = "done" /\ req[r].status = 400

(* C3: a predict request whose backend call failed (refused, timeout, abort, *)
(* non-2xx, other transport error) attempted no create and left no record,   *)
(* complete or partial, in the store.                                        *)
C3_FailedCallPersistsNothing ==
  \A r \in Slots :
    req[r].failedAt = "backend" =>
      /\ req[r].creates = 0
      /\ RecordsOf(r) = {}
      /\ Len(store) <= Cardinality({q \in Slots : req[q].status = 200})

C3_Witness ==
  \E r \in Slots :
    /\ req[r].failedAt = "backend" /\ req[r].error = ErrTimeout
    /\ req[r].pc = "done" /\ req[r].status = 504 /\ req[r].calls = 1

(* C4: the answer is 503 exactly when the backend call was refused, 504      *)
(* exactly when the backend call timed out or was aborted, and 500 for every *)
(* other pipeline failure (other backend errors, persistence failures).      *)
C4_StatusNamesTheFailure ==
  \A r \in Slots :
    (req[r].pc = "done" /\ req[r].failedAt \in {"backend", "normalize", "save"}) =>
      LET refused == req[r].failedAt = "backend" /\ req[r].error = ErrRefused
          timedOut == req[r].failedAt = "backend" /\ req[r].error \in {ErrTimeout, ErrAborted}
      IN /\ (req[r].status = 503) <=> refused
         /\ (req[r].status = 504) <=> timedOut
         /\ (~refused /\ ~timedOut) => req[r].status = 500

(* C5: when the backend call succeeded and persisting the record failed, for *)
(* whatever cause, the request is answered 500 and carries no predictionId.  *)
C5_PersistenceFailureIs500 ==
  \A r \in Slots :
    req[r].failedAt = "save" =>
      /\ req[r].status = 500
      /\ req[r].predictionId = 0

WellFormed(resp) ==
  \/ /\ resp.kind = "hf"
     /\ resp.hf # <<>>
     /\ \A i \in 1..Len(resp.hf) :
          resp.hf[i].label \in {"LABEL_0", "LABEL_1"} /\ InUnit(resp.hf[i].score)
  \/ /\ resp.kind = "ml"
     /\ resp.ml.prediction.label \in {0, 1}
     /\ InUnit(resp.ml.prediction.confidence)
     /\ resp.ml.explanation.present => resp.ml.explanation.method \in Methods

(* C6: a valid request whose backend call returned a well-formed response,   *)
(* with the record store available, persists exactly one record and is       *)
(* answered 200 with that record's id; the assembled record always passes    *)
(* the schema.                                                               *)
C6_SuccessPersistsOneRecord ==
  \A r \in Slots :
    /\ (req[r].pc = "saving" /\ WellFormed(req[r].resp)) => Validate(req[r].doc) = {}
    /\ (req[r].pc = "done" /\ WellFormed(req[r].resp) /\ req[r].error # ErrStore) =>
         /\ req[r].status = 200
         /\ req[r].predictionId = r
         /\ Cardinality(RecordsOf(r)) = 1

(***************************************************************************)
(* Claims about GET /:id and GET /history, checked under SpecRead.         *)
(***************************************************************************)
(* the read policy of the specification: no owner, or the owner itself *)
CanRead(d, principal) ==
  d.userId = "none" \/ (principal \in Users /\ principal.id = d.userId)

(* C7: getById on an existing record answers 200 with the record if and only *)
(* if the record has no owner or the principal is its owner, and 403         *)
(* otherwise; no role grants a bypass.                                       *)
C7_GetByIdFollowsOwnership ==
  [][(reader.pc = "idle" /\ reader'.pc = "done" /\ reader'.op = "get") =>
       \A d \in Range(store) :
         d._id = reader'.id =>
           IF CanRead(d, reader'.user)
           THEN reader'.status = 200 /\ reader'.data = d
           ELSE reader'.status = 403 /\ reader'.data = NoDoc]_vars

C7_Witness ==
  /\ reader.pc = "done" /\ reader.op = "get"
  /\ reader.user = UserB /\ reader.user.role = "admin"
  /\ reader.status = 403
  /\ \E d \in Range(store) : d._id = reader.id /\ d.userId = "A"
  /\ \E d \in Range(store) : d.userId = "none"

(* C8: getHistory answers an unauthenticated caller 401 with no records, and *)
(* every record it returns to principal P is owned by P: never another       *)
(* user's record, never an unowned one.                                      *)
C8_HistoryOnlyOwnRecords ==
  reader.op = "history" =>
    /\ reader.user \notin Users =>
         (reader.pc = "done" /\ reader.status = 401 /\ reader.predictions = <<>>)
    /\ \A i \in 1..Len(reader.predictions) :
         /\ reader.predictions[i].userId = reader.user.id
         /\ reader.predictions[i].userId # "none"

C8_Witness ==
  /\ reader.op = "history" /\ reader.pc = "done" /\ reader.status = 200
  /\ Len(reader.predictions) = 1
  /\ Len(store) = 2
  /\ \E d \in Range(store) : d.userId # reader.user.id

OwnedBy(principal) == {d \in Range(store) : d.userId = principal.id}

(* C9: for page p >= 1 and page size n >= 1 getHistory returns the           *)
(* principal's records ranked (p-1)*n+1 .. p*n by creation time, newest      *)
(* first, and pagination.pages = ceil(total / n), total being the number of  *)
(* records the principal owns.                                               *)
C9_HistoryPagination ==
  [][/\ (reader.pc = "idle" /\ reader'.pc = "counting") =>
         LET owned == OwnedBy(reader'.user)
             n == reader'.limit
             first == (reader'.page - 1) * n
             res == reader'.predictions
         IN /\ reader'.page >= 1 /\ n >= 1
            /\ Len(res) = Max(0, Min(n, Cardinality(owned) - first))
            /\ \A i \in 1..Len(res) :
                 /\ res[i] \in owned
                 /\ Cardinality({d \in owned : d.timestamp > res[i].timestamp})
                      <= first + i - 1
                 /\ Cardinality({d \in owned : d.timestamp >= res[i].timestamp})
                      >= first + i
            /\ \A i, j \in 1..Len(res) : i # j => res[i] # res[j]
     /\ (reader.pc = "counting" /\ reader'.pc = "done") =>
         LET total == Cardinality(OwnedBy(reader'.user))
         IN /\ reader'.total = total
            /\ reader'.pages * reader'.limit >= total
            /\ (reader'.pages - 1) * reader'.limit < total
            /\ reader'.predictions = reader.predictions]_vars

C9_Witness ==
  /\ reader.op = "history" /\ reader.pc = "done"
  /\ reader.page = 2 /\ reader.limit = 1
  /\ reader.total = 2 /\ reader.pages = 2
  /\ Len(reader.predictions) = 1
  /\ \A d \in OwnedBy(reader.user) : d.timestamp >= reader.predictions[1].timestamp

(***************************************************************************)
(* Claims about POST /feedback, checked under SpecFeedback.                *)
(***************************************************************************)
(* C10: feedback whose predictionId names no existing PredictionRecord is   *)
(* answered 404 and creates no FeedbackRecord; every FeedbackRecord         *)
(* references a PredictionRecord that exists.                               *)
C10_FeedbackNeedsPrediction ==
  /\ \A f \in FbIds :
       ( /\ fb[f].pc # "idle"
         /\ fb[f].predictionId >= 1
         /\ fb[f].rating \in 1..5
         /\ StrLen(fb[f].comment) <= MaxCommentLen
         /\ \A d \in Range(store) : d._id # fb[f].predictionId ) =>
           /\ fb[f].pc = "done"
           /\ fb[f].status = 404
           /\ \A k \in Range(feedbacks) : k._id # f
  /\ \A k \in Range(feedbacks) : \E d \in Range(store) : d._id = k.predictionId

C10_Witness ==
  \E f \in FbIds :
    /\ fb[f].pc = "done" /\ fb[f].status = 404
    /\ fb[f].predictionId = Max(MaxReq, MaxSample) + 1
    /\ Len(store) >= 1

Synthesized(resp) ==
  \/ resp.kind = "hf" /\ resp.hf # <<>>
  \/ resp.kind = "ml" /\ ~resp.ml.explanation.present

(* the backend supplied explanation and bias itself *)
Rich(resp) ==
  resp.kind = "ml" /\ resp.ml.explanation.present /\ resp.ml.biasScore.present

(* the tag a genuine explanation carries *)
GenuineTag == "success"

(* C12: every outcome assembled on a synthesis path, in either variant, has *)
(* an explanation.status other than the genuine tag and as many importances *)
(* as tokens.                                                               *)
C12_SynthesizedIsTagged ==
  \A r \in Slots :
    (req[r].pc = "saving" /\ Synthesized(req[r].resp)) =>
      \A raw \in RawObjects(r, req[r].resp) :
        /\ raw.explanation.status # GenuineTag
        /\ Len(raw.explanation.importances) = Len(raw.explanation.tokens)

(* C13: the record persisted for a rich backend response carries            *)
(* explanation.status = genuine and metadata.backendSource = the variant    *)
(* called, as stored fields.                                                *)
C13_RichRecordIsTagged ==
  \A r \in Slots :
    Rich(req[r].resp) =>
      \A d \in RecordsOf(r) :
        /\ "status" \in DOMAIN d.explanation
        /\ d.explanation.status = GenuineTag
        /\ "source" \in DOMAIN d.metadata
        /\ d.metadata.source = variant

(* the backend response is a complete outcome *)
Complete(resp) ==
  Rich(resp) /\ resp.ml.prediction.hasProbs
  /\ resp.ml.prediction.label # Absent /\ resp.ml.prediction.confidence # Absent

(* C14: the record persisted for a complete backend outcome holds the       *)
(* backend's label, confidence, probabilities, explanation tokens and       *)
(* importances and its four bias scores, non-zero ones included.            *)
C14_CompleteOutcomeVerbatim ==
  \A r \in Slots :
    Complete(req[r].resp) =>
      LET ml == req[r].resp.ml
      IN \A d \in RecordsOf(r) :
           /\ d.prediction.label = ml.prediction.label
           /\ d.prediction.confidence = ml.prediction.confidence
           /\ d.prediction.probabilities = ml.prediction.probabilities
           /\ d.explanation.tokens = ml.explanation.tokens
           /\ d.explanation.importances = ml.explanation.importances
           /\ d.biasScore.genderBias = ml.biasScore.gender
           /\ d.biasScore.ethnicBias = ml.biasScore.ethnic
           /\ d.biasScore.religiousBias = ml.biasScore.religious
           /\ d.biasScore.overallBias = ml.biasScore.overall

(* C16: a predict request makes at most one backend call and at most one   *)
(* create; once it has been answered, with a failure or not, it takes no    *)
(* further step.                                                            *)
C16_AtMostOnce ==
  [][\A r \in Slots :
       /\ req'[r].calls <= 1
       /\ req'[r].creates <= 1
       /\ req'[r].calls >= req[r].calls
       /\ req'[r].creates >= req[r].creates
       /\ req[r].pc = "done" => req'[r] = req[r]]_vars

C16_Witness ==
  \E r \in Slots :
    /\ req[r].pc = "done" /\ req[r].failedAt = "save" /\ req[r].status >= 500
    /\ req[r].calls = 1 /\ req[r].creates = 1
    /\ RecordsOf(r) = {}

(* C17: in the hosted variant the assembled label is the class named by the *)
(* identifier of a highest-scoring entry (LABEL_0 = 0, LABEL_1 = 1) and the  *)
(* confidence is that entry's score, whatever the order of the list; an      *)
(* entry with another identifier is not mapped to a class.                   *)
C17_LabelByIdentifier ==
  \A r \in Slots :
    (req[r].pc = "saving" /\ req[r].resp.kind = "hf") =>
      LET results == req[r].resp.hf
      IN \E i \in 1..Len(results) :
           /\ \A j \in 1..Len(results) : results[j].score <= results[i].score
           /\ results[i].label \in {"LABEL_0", "LABEL_1"}
           /\ req[r].doc.prediction.label = (IF results[i].label = "LABEL_1" THEN 1 ELSE 0)
           /\ req[r].doc.prediction.confidence = results[i].score

(* the k-th word of a text: the word with k - 1 words before it *)
IsKthWord(text, k, w) ==
  \E i \in 1..Len(text) :
    /\ ~text[i].ws /\ text[i].s = w
    /\ Cardinality({j \in 1..(i - 1) : ~text[j].ws}) = k - 1

NumWords(text) == Cardinality({i \in 1..Len(text) : ~text[i].ws})

(* C18: on the synthesis path explanation.tokens is the text's whitespace-  *)
(* separated tokens in order, cut to the first 50, and every synthesised     *)
(* importance and bias score lies in [0,1].                                  *)
C18_SynthesizedTokens ==
  \A r \in Slots :
    (req[r].pc = "saving" /\ Synthesized(req[r].resp)) =>
      LET tokens == req[r].doc.explanation.tokens
      IN /\ Len(tokens) = Min(TokenLimit, NumWords(req[r].text))
         /\ Len(tokens) <= TokenLimit
         /\ \A k \in 1..Len(tokens) : IsKthWord(req[r].text, k, tokens[k])
         /\ \A raw \in RawObjects(r, req[r].resp) :
              /\ raw.explanation.tokens = tokens
              /\ \A i \in 1..Len(raw.explanation.importances) :
                   InUnit(raw.explanation.importances[i])
              /\ InUnit(raw.biasScore.gender) /\ InUnit(raw.biasScore.ethnic)
              /\ InUnit(raw.biasScore.religious) /\ InUnit(raw.biasScore.overall)

C18_Witness ==
  \E r \in Slots :
    /\ req[r].pc = "saving" /\ req[r].resp.kind = "hf"
    /\ NumWords(req[r].text) = TokenLimit + 1
    /\ Len(req[r].doc.explanation.tokens) = TokenLimit
    /\ req[r].doc.explanation.tokens[TokenLimit] = ToString(TokenLimit)
    /\ req[r].doc.explanation.importances[1] # req[r].doc.explanation.importances[2]

(***************************************************************************)
(* Claims about concurrent predict requests, checked under SpecConcurrent. *)
(***************************************************************************)
(* the principal whose request persisted record d *)
IssuerOf(d) == req[d._id].user

(* C19: every persisted record's owner is the id of the principal that      *)
(* issued its request, and is unset when that request was anonymous, under  *)
(* any interleaving of the requests' steps.                                 *)
C19_OwnerIsIssuer ==
  \A d \in Range(store) :
    /\ d._id \in Slots
    /\ IssuerOf(d) = Anonymous => d.userId = "none"
    /\ IssuerOf(d) \in Users => d.userId = IssuerOf(d).id
    /\ \A p \in Users : p # IssuerOf(d) => d.userId # p.id

C19_Witness ==
  /\ Len(store) = 2
  /\ IssuerOf(store[1]) = UserB /\ store[1].userId = "B"
  /\ IssuerOf(store[2]) = Anonymous /\ store[2].userId = "none"
  /\ store[1].timestamp > store[2].timestamp

(* the positions of the store that hold a record of request r *)
PositionsOf(q, r) == {i \in 1..Len(q) : q[i]._id = r}

(* the records of the store, without those of request r *)
WithoutRecordsOf(q, r) == SelectSeq(q, LAMBDA d : d._id # r)

(* each request has at most one record in the store *)
AtMostOneRecord == \A r \in Slots : Cardinality(PositionsOf(store, r)) <= 1

(* every record is the whole, valid document assembled from the inputs of *)
(* the request that was answered with it                                  *)
RecordsAreOwn ==
  \A i \in 1..Len(store) :
    LET d == store[i]
        r == d._id
    IN /\ req[r].pc = "done" /\ req[r].status = 200 /\ req[r].predictionId = r
       /\ Validate(d) = {}
       /\ \E raw \in RawObjects(r, req[r].resp) : d = NewPrediction(raw, r, d.timestamp)

(* C20: concurrent predict requests are independent. Each persists at most  *)
(* one record; a persisted record is the whole document assembled from its  *)
(* own request's text, language, principal and backend response; a step of  *)
(* one request, failing or not, changes neither the state nor the record of *)
(* another, and a request whose document is valid can always be saved.      *)
C20_RequestsIndependent ==
  [][/\ AtMostOneRecord'
     /\ RecordsAreOwn'
     /\ \A r \in Slots :
          req'[r] # req[r] =>
            /\ \A q \in Slots \ {r} : req'[q] = req[q]
            /\ WithoutRecordsOf(store', r) = store
     /\ \A r \in Slots :
          (req[r].pc = "saving" /\ Validate(req[r].doc) = {}) => ENABLED SaveOk(r)]_vars

C20_Witness ==
  \E r1, r2 \in Slots :
    /\ req[r1].pc = "done" /\ req[r1].failedAt = "backend" /\ req[r1].status = 503
    /\ req[r2].pc = "done" /\ req[r2].status = 200
    /\ req[r1].text # req[r2].text /\ req[r1].user # req[r2].user
    /\ PositionsOf(store, r2) = {1} /\ PositionsOf(store, r1) = {}
    /\ store[1].text = req[r2].text

(***************************************************************************)
(* Claim about the persisted records, checked under SpecFrame.             *)
(***************************************************************************)
(* a record without its feedback field *)
Frame(d) == [d EXCEPT !.feedback = NoFeedback]

Backs(k, d) ==
  /\ k.predictionId = d._id
  /\ k.rating = d.feedback.rating
  /\ k.correctLabel = d.feedback.correctLabel
  /\ k.comment = d.feedback.comment

(* C21: the feedback attached to a PredictionRecord is absent or equal in  *)
(* rating, corrected label and comment to a FeedbackRecord that references *)
(* that prediction, whatever the order and overlap of the submissions.     *)
C21_AttachedFeedbackIsBacked ==
  \A d \in Range(store) :
    d.feedback.present => \E k \in Range(feedbacks) : Backs(k, d)

C21_Witness ==
  \E f1, f2 \in DOMAIN fb :
    /\ fb[f1].pc = "done" /\ fb[f1].status = 500 /\ fb[f1].feedbackId = f1
    /\ fb[f2].pc = "done" /\ fb[f2].status = 201
    /\ fb[f1].rating # fb[f2].rating
    /\ Len(feedbacks) = 2
    /\ \E d \in Range(store) :
         /\ d.feedback.present /\ d.feedback.rating = fb[f2].rating
         /\ \E k \in Range(feedbacks) : k._id = f2 /\ Backs(k, d)
         /\ \E k \in Range(feedbacks) :
              k._id = f1 /\ k.predictionId = d._id /\ ~Backs(k, d)

====
